---- MODULE Spec2Model ----
(***************************************************************************)
(* Model of the safes.io browser extension.                                *)
(*                                                                         *)
(*   background.js  (src/unnamed/part_000): the service worker that owns   *)
(*                  the ONNX session and answers PROCESS_IMAGE messages.   *)
(*   image_processor.js / popup.js (src/unnamed/part_001): the letterbox   *)
(*                  preprocessor and the popup flow.                       *)
(*                                                                         *)
(* Several specifications share the module:                                *)
(*   Spec / FairSpec : the service worker (one worker lifetime).           *)
(*   UiSpec          : the popup's handleImageUpload together with the     *)
(*                     service worker.                                     *)
(*   ImgSpec         : the geometry of processImage, targetSize = 320,     *)
(*                     with JavaScript's double arithmetic modelled bit    *)
(*                     for bit.                                            *)
(*   PixSpec         : the RGBA -> NCHW conversion loop of processImage on *)
(*                     a canvas of side CanvasSide.                        *)
(*   LetterboxSpec   : ImgSpec and PixSpec side by side.                   *)
(***************************************************************************)
EXTENDS Integers, Sequences, FiniteSets, TLC

VARIABLES
  \* ---- background.js ----
  ortSession,          \* the global session reference: "null" or the handle
  initPc,              \* per lifecycle trigger: position of its initializeModel call
  createCalls,         \* number of ort.InferenceSession.create invocations
  reloadTimers,        \* number of pending setTimeout(reload, 5000) timers
  unhandledRejections, \* rejected initializeModel promises nobody caught
  reloaded,            \* chrome.runtime.reload() was called: the worker is gone
  lastSettled,         \* outcome of the initializeModel call that settled last
  overlapped,          \* initializeModel was called while a load was pending
  requests,            \* the messages delivered to the onMessage listener
  liveTensors,         \* ids of requests whose input tensor is not disposed
  \* ---- image_processor.js, geometry ----
  ipc, img, newWidth, newHeight, padLeft, padRight, padTop, padBottom, result,
  \* ---- image_processor.js, conversion loop ----
  ppc, imageData, float32Data, writeCount, loopI, pixResult,
  \* ---- popup.js ----
  uiPc,                \* position of handleImageUpload
  statusText,          \* statusElement.textContent
  progress,            \* progressBar.style.width, in percent
  isError,             \* the status is shown in the error colour
  uiReq                \* index in requests of the message the popup sent

workerVars == <<ortSession, initPc, createCalls, reloadTimers,
                unhandledRejections, reloaded, lastSettled, overlapped,
                requests, liveTensors>>
imgVars == <<ipc, img, newWidth, newHeight, padLeft, padRight, padTop,
             padBottom, result>>
pixVars == <<ppc, imageData, float32Data, writeCount, loopI, pixResult>>
uiVars == <<uiPc, statusText, progress, isError, uiReq>>
vars == <<ortSession, initPc, createCalls, reloadTimers, unhandledRejections,
          reloaded, lastSettled, overlapped, requests, liveTensors,
          ipc, img, newWidth, newHeight, padLeft, padRight, padTop, padBottom,
          result,
          ppc, imageData, float32Data, writeCount, loopI, pixResult,
          uiPc, statusText, progress, isError, uiReq>>

(***************************************************************************)
(* Bounds.                                                                 *)
(***************************************************************************)
MaxRequests == 2
MaxDim == 16
CanvasSide == 2

(***************************************************************************)
(* background.js                                                           *)
(***************************************************************************)

\* The two lifecycle events that call initializeModel (lines 24-30).  Each
\* fires at most once in a worker lifetime.  A session handle is named after
\* the trigger whose create call returned it.
Triggers == {"installed", "startup"}

\* The request shapes the popup may send: the data length of tensorData and
\* the dimensions array.
TensorLens == {3, 12}
DimsChoices == {<<1, 3, 1, 1>>, <<1, 3, 2, 2>>}

\* The messages the listener may receive: PROCESS_IMAGE requests, and a
\* message of some other type.
Messages ==
  [type : {"PROCESS_IMAGE"}, len : TensorLens, dims : DimsChoices]
    \cup {[type |-> "OTHER", len |-> 0, dims |-> <<>>]}

RECURSIVE Product(_)
Product(dims) == IF dims = <<>> THEN 1 ELSE Head(dims) * Product(Tail(dims))

\* new ort.Tensor('float32', typedData, request.dimensions), line 82: the
\* constructor of onnxruntime-web 1.16.3 (imported on line 2) throws
\* "Tensor's size(..) does not match data length(..)" when the data length
\* differs from the product of the dimensions.
TensorConstructorThrows(len, dims) == len # Product(dims)

WorkerInit ==
  /\ ortSession = "null"
  /\ initPc = [t \in Triggers |-> "idle"]
  /\ createCalls = 0
  /\ reloadTimers = 0
  /\ unhandledRejections = 0
  /\ reloaded = FALSE
  /\ lastSettled = "none"
  /\ overlapped = FALSE
  /\ requests = <<>>
  /\ liveTensors = {}

\* initializeModel, lines 35-46, up to the await: called by the onInstalled
\* listener (line 24) or by the onStartup listener (lines 25-26).  The create
\* call is made synchronously, whatever other loads are pending.
initializeModel(t) ==
  /\ ~reloaded
  /\ initPc[t] = "idle"
  /\ initPc' = [initPc EXCEPT ![t] = "creating"]
  /\ createCalls' = createCalls + 1
  /\ overlapped' = (overlapped \/ \E u \in Triggers : initPc[u] = "creating")
  /\ UNCHANGED <<ortSession, reloadTimers, unhandledRejections, reloaded,
                 lastSettled, requests, liveTensors>>

\* The create promise fulfils: line 46 assigns the global, line 47 logs.
CreateResolves(t) ==
  /\ ~reloaded
  /\ initPc[t] = "creating"
  /\ ortSession' = t
  /\ initPc' = [initPc EXCEPT ![t] = "ready"]
  /\ lastSettled' = "resolved"
  /\ UNCHANGED <<createCalls, reloadTimers, unhandledRejections, reloaded,
                 overlapped, requests, liveTensors>>

\* What the caller of initializeModel does with the rethrown error (line 50).
\* onStartup (lines 26-29) catches it and arms the reload timer; onInstalled
\* (line 24) passes initializeModel itself as the listener, so the rejected
\* promise has no handler.
SurfaceFailure(t) ==
  IF t = "startup"
    THEN /\ reloadTimers' = reloadTimers + 1
         /\ UNCHANGED unhandledRejections
    ELSE /\ unhandledRejections' = unhandledRejections + 1
         /\ UNCHANGED reloadTimers

\* CreateRejects with a catch block that also clears the global.
CreateRejectsClearing(t) ==
  /\ ~reloaded
  /\ initPc[t] = "creating"
  /\ initPc' = [initPc EXCEPT ![t] = "failed"]
  /\ lastSettled' = "rejected"
  /\ SurfaceFailure(t)
  /\ ortSession' = "null"
  /\ UNCHANGED <<createCalls, reloaded, overlapped, requests, liveTensors>>

\* The create promise rejects: the catch block of lines 48-51 logs and
\* rethrows, leaving ortSession as it was; the caller's handler runs in the
\* same microtask checkpoint.
CreateRejects(t) ==
  /\ ~reloaded
  /\ initPc[t] = "creating"
  /\ initPc' = [initPc EXCEPT ![t] = "failed"]
  /\ lastSettled' = "rejected"
  /\ SurfaceFailure(t)
  /\ UNCHANGED <<ortSession, createCalls, reloaded, overlapped, requests,
                 liveTensors>>

\* A request whose channel is still waiting for sendResponse when the worker
\* is torn down observes channel closure.
CloseChannel(req) ==
  IF req.pc = "running" THEN [req EXCEPT !.pc = "closed"] ELSE req

\* The timer of line 28 fires: chrome.runtime.reload() restarts the
\* extension, which ends this worker.
ReloadTimerFires ==
  /\ ~reloaded
  /\ reloadTimers > 0
  /\ reloaded' = TRUE
  /\ reloadTimers' = reloadTimers - 1
  /\ requests' = [i \in 1..Len(requests) |-> CloseChannel(requests[i])]
  /\ UNCHANGED <<ortSession, initPc, createCalls, unhandledRejections,
                 lastSettled, overlapped, liveTensors>>

\* The readiness check of lines 76-78.
SessionMissing == ortSession = "null"

\* The state of the session manager in the terms of the design: a load in
\* flight, else the outcome of the load that settled last.
ManagerState ==
  IF \E t \in Triggers : initPc[t] = "creating" THEN "Loading"
  ELSE IF lastSettled = "none" THEN "Uninitialized"
  ELSE IF lastSettled = "resolved" THEN "Ready"
  ELSE "Failed"

\* The record of a delivered message.  response is what sendResponse was
\* called with ("none" while it has not been called), responses counts the
\* calls, ranOn is the session whose run was invoked ("null" if none) and
\* namesFrom the session whose outputNames was read; manager is the state of
\* the session manager when the message was handled.
NewRequest(type, len, dims) ==
  [type |-> type, len |-> len, dims |-> dims, pc |-> "ignored",
   response |-> "none", responses |-> 0, ranOn |-> "null",
   namesFrom |-> "null", manager |-> ManagerState]

\* handleProcessImage up to its await, lines 75-85, and the promise chain of
\* lines 65-66 when it rejects at once.
handleProcessImage(req, id) ==
  IF SessionMissing
    THEN \* line 77 throws; line 66 answers with error.message
         /\ requests' = Append(requests,
               [req EXCEPT !.pc = "done", !.response = "notInitialized",
                           !.responses = 1])
         /\ UNCHANGED liveTensors
    ELSE IF TensorConstructorThrows(req.len, req.dims)
      THEN \* line 82 throws; line 66 answers with error.message
           /\ requests' = Append(requests,
                 [req EXCEPT !.pc = "done", !.response = "sizeMismatch",
                             !.responses = 1])
           /\ UNCHANGED liveTensors
      ELSE \* line 82 creates the tensor, line 85 invokes run and awaits
           /\ requests' = Append(requests,
                 [req EXCEPT !.pc = "running", !.ranOn = ortSession])
           /\ liveTensors' = liveTensors \cup {id}

\* The onMessage listener, lines 57-70.  A message of another type is not
\* answered and the listener returns undefined.
OnMessage(type, len, dims) ==
  /\ ~reloaded
  /\ Len(requests) < MaxRequests
  /\ IF type = "PROCESS_IMAGE"
       THEN handleProcessImage(NewRequest(type, len, dims), Len(requests) + 1)
       ELSE /\ requests' = Append(requests, NewRequest(type, len, dims))
            /\ UNCHANGED liveTensors
  /\ UNCHANGED <<ortSession, initPc, createCalls, reloadTimers,
                 unhandledRejections, reloaded, lastSettled, overlapped>>

\* The run promise fulfils: lines 86-101 dispose the tensor, read
\* outputNames of the session the global refers to now, and return the
\* summary, which line 65 hands to sendResponse.
RunResolves(i) ==
  /\ ~reloaded
  /\ i \in 1..Len(requests)
  /\ requests[i].pc = "running"
  /\ liveTensors' = liveTensors \ {i}
  /\ requests' = [requests EXCEPT ![i] =
        [@ EXCEPT !.pc = "done", !.response = "summary", !.responses = 1,
                  !.namesFrom = ortSession]]
  /\ UNCHANGED <<ortSession, initPc, createCalls, reloadTimers,
                 unhandledRejections, reloaded, lastSettled, overlapped>>

\* RunRejects without the catch of line 66: the rejection is lost.
RunRejectsUncaught(i) ==
  /\ ~reloaded
  /\ i \in 1..Len(requests)
  /\ requests[i].pc = "running"
  /\ requests' = [requests EXCEPT ![i] = [@ EXCEPT !.pc = "done"]]
  /\ UNCHANGED <<ortSession, initPc, createCalls, reloadTimers,
                 unhandledRejections, reloaded, lastSettled, overlapped,
                 liveTensors>>

\* The run promise rejects: the await of line 85 throws, so line 86 is not
\* reached; line 66 answers with error.message.
RunRejects(i) ==
  /\ ~reloaded
  /\ i \in 1..Len(requests)
  /\ requests[i].pc = "running"
  /\ requests' = [requests EXCEPT ![i] =
        [@ EXCEPT !.pc = "done", !.response = "runError", !.responses = 1]]
  /\ UNCHANGED <<ortSession, initPc, createCalls, reloadTimers,
                 unhandledRejections, reloaded, lastSettled, overlapped,
                 liveTensors>>

(***************************************************************************)
(* JavaScript numbers: IEEE 754 binary64, positive finite values only.     *)
(* A double is [N, e] and stands for N * 2^e, with N < 2^53 held as a      *)
(* little-endian vector of Limbs digits in base LimbBase, so that no       *)
(* intermediate value leaves the 32-bit integers.                          *)
(***************************************************************************)
LimbBase == 2^14
Limbs == 1..5

BigFromInt(n) ==
  <<n % LimbBase, (n \div LimbBase) % LimbBase, n \div (LimbBase * LimbBase),
    0, 0>>

\* For values below 2^28.
BigToInt(a) == a[1] + LimbBase * a[2]

Pow2_52 == <<0, 0, 0, 2^10, 0>>
Pow2_53 == <<0, 0, 0, 2^11, 0>>
Pow2_54 == <<0, 0, 0, 2^12, 0>>

BigOdd(a) == a[1] % 2 = 1

BigGeq(a, b) ==
  LET d == {i \in Limbs : a[i] # b[i]}
  IN  d = {} \/ LET m == CHOOSE i \in d : \A j \in d : j <= i
                IN  a[m] > b[m]

BigIsZero(a) == \A i \in Limbs : a[i] = 0

\* digit i of floor(a / 2)
HalfLimb(a, i) ==
  (a[i] \div 2) +
  (IF i + 1 \in Limbs THEN (a[i + 1] % 2) * (LimbBase \div 2) ELSE 0)

\* floor(a / 2)
BigHalf(a) ==
  <<HalfLimb(a, 1), HalfLimb(a, 2), HalfLimb(a, 3), HalfLimb(a, 4),
    HalfLimb(a, 5)>>

RECURSIVE MulAddFrom(_, _, _, _)
\* the digits i.. of a * k + c * LimbBase^(i-1), for a small k
MulAddFrom(a, k, i, c) ==
  IF i \notin Limbs THEN <<>>
  ELSE LET v == a[i] * k + c
       IN  <<v % LimbBase>> \o MulAddFrom(a, k, i + 1, v \div LimbBase)

BigMulSmall(a, k) == MulAddFrom(a, k, 1, 0)
BigDouble(a) == MulAddFrom(a, 2, 1, 0)
BigInc(a) == MulAddFrom(a, 1, 1, 1)
BigDoubleInc(a) == MulAddFrom(a, 2, 1, 1)

RECURSIVE SubFrom(_, _, _, _)
\* the digits i.. of a - b, for a >= b
SubFrom(a, b, i, borrow) ==
  IF i \notin Limbs THEN <<>>
  ELSE LET v == a[i] - b[i] - borrow
       IN  IF v < 0 THEN <<v + LimbBase>> \o SubFrom(a, b, i + 1, 1)
           ELSE <<v>> \o SubFrom(a, b, i + 1, 0)

BigSub(a, b) == SubFrom(a, b, 1, 0)

\* An integer below 2^28 is a double exactly.
ToDouble(n) == [N |-> BigFromInt(n), e |-> 0]

\* One step of bringing N up to 53 bits: the same value, N doubled.
NormalizeStep(x) ==
  IF BigGeq(x.N, Pow2_52) THEN x
  ELSE [N |-> BigDouble(x.N), e |-> x.e - 1]

\* The same value with 2^52 <= N < 2^53 (x is not zero): 52 steps.  The
\* loops over the bits of a double are functions, so that every step is
\* evaluated before the next one starts.
Normalize(x) ==
  LET steps[s \in [x : [N : Seq(Nat), e : Int], n : Nat]] ==
        IF s.n = 0 THEN s.x
        ELSE steps[[x |-> NormalizeStep(s.x), n |-> s.n - 1]]
  IN  steps[[x |-> x, n |-> 52]]

RECURSIVE RoundToDouble(_, _, _)
\* Round N * 2^e (plus a non-zero tail below the last bit when sticky) to 53
\* significant bits, to nearest, ties to even.
RoundToDouble(N, e, sticky) ==
  IF BigGeq(N, Pow2_54)
    THEN RoundToDouble(BigHalf(N), e + 1, sticky \/ BigOdd(N))
  ELSE IF BigGeq(N, Pow2_53)
    THEN LET half == BigHalf(N)
             up == BigOdd(N) /\ (sticky \/ BigOdd(half))
             M == IF up THEN BigInc(half) ELSE half
         IN  IF M = Pow2_53 THEN [N |-> Pow2_52, e |-> e + 2]
             ELSE [N |-> M, e |-> e + 1]
  ELSE [N |-> N, e |-> e]

\* One step of the long division of r by d, r < d: the next quotient bit is
\* appended to Q.  The state is <<Q, r>>.
DivStep(qr, d) ==
  LET r2 == BigDouble(qr[2])
  IN  IF BigGeq(r2, d) THEN <<BigDoubleInc(qr[1]), BigSub(r2, d)>>
      ELSE <<BigDouble(qr[1]), r2>>

\* n steps
DivLoop(qr, d, n) ==
  LET steps[s \in [qr : Seq(Seq(Nat)), n : Nat]] ==
        IF s.n = 0 THEN s.qr
        ELSE steps[[qr |-> DivStep(s.qr, d), n |-> s.n - 1]]
  IN  steps[[qr |-> qr, n |-> n]]

\* x / y: the quotient of the significands to 56 bits, rounded once.
FlDiv(x, y) ==
  LET nx == Normalize(x)
      ny == Normalize(y)
      qr == DivLoop(<<BigFromInt(0), nx.N>>, BigDouble(ny.N), 56)
  IN  RoundToDouble(qr[1], nx.e - ny.e - 55, ~BigIsZero(qr[2]))

\* k * x for an integer k below 2^14: the exact product, rounded once.
FlMulInt(k, x) ==
  LET nx == Normalize(x)
  IN  RoundToDouble(BigMulSmall(nx.N, k), nx.e, FALSE)

\* N shifted right k bits, plus the last bit shifted out
ShiftRound(N, k) ==
  LET steps[s \in [N : Seq(Nat), last : {0, 1}, k : Nat]] ==
        IF s.k = 0 THEN s
        ELSE steps[[N |-> BigHalf(s.N),
                    last |-> IF BigOdd(s.N) THEN 1 ELSE 0,
                    k |-> s.k - 1]]
      end == steps[[N |-> N, last |-> 0, k |-> k]]
  IN  BigToInt(end.N) + end.last

\* Math.round: the nearest integer, ties towards +infinity, i.e.
\* floor(x) + 1 when the fraction is at least one half.  Values below 2^28.
MathRound(x) ==
  IF x.e >= 0 THEN BigToInt(x.N) * 2^(x.e)
  ELSE ShiftRound(x.N, 0 - x.e)

(***************************************************************************)
(* image_processor.js: the geometry of processImage                        *)
(***************************************************************************)
targetSize == 320

\* Image widths and heights: every small size, zero (an image element
\* without intrinsic size), and a few sizes that reach the documented example
\* (640x480), the no-op resize (320x320), a tie of the rounding (128x91: the
\* exact quotient is 227.5) and an extreme aspect ratio (1x1000).
ExtraDims == {91, 128, 320, 480, 640, 1000}
ImageSides == (0..MaxDim) \cup ExtraDims

\* const aspect = imgWidth / imgHeight, line 36
Aspect(w, h) == FlDiv(ToDouble(w), ToDouble(h))

\* Math.round(targetSize / aspect), line 45
NewHeightLandscape(w, h) == MathRound(FlDiv(ToDouble(targetSize), Aspect(w, h)))

\* Math.round(targetSize * aspect), line 49
NewWidthPortrait(w, h) == MathRound(FlMulInt(targetSize, Aspect(w, h)))

\* NewHeight without the portrait branch of lines 46-50.
NewHeightNoPortrait(w, h) == NewHeightLandscape(w, h)

\* lines 41-50
NewWidth(w, h) == IF w >= h THEN targetSize ELSE NewWidthPortrait(w, h)
NewHeight(w, h) == IF w >= h THEN NewHeightLandscape(w, h) ELSE targetSize

\* Math.floor(pad / 2) and Math.ceil(pad / 2), lines 65-68: pad / 2 is exact
\* in a double, pad is an integer and is not negative.
PadLeading(pad) == pad \div 2
\* PadTrailing with Math.floor in place of Math.ceil.
PadTrailingFloor(pad) == pad \div 2
PadTrailing(pad) == (pad + 1) \div 2

\* dims: [1, 3, targetSize, targetSize], line 127
Dims(side) == <<1, 3, side, side>>

\* const resizeFactor = 1, line 118
ResizeFactor(w, h) == 1

\* The value of result while processImage has returned nothing.
NoResult == [dims |-> <<>>, resizeFactor |-> 0, padLeft |-> 0, padTop |-> 0]

ImgIdle ==
  /\ ipc = "off"
  /\ img = [width |-> 1, height |-> 1]
  /\ newWidth = 0 /\ newHeight = 0
  /\ padLeft = 0 /\ padRight = 0 /\ padTop = 0 /\ padBottom = 0
  /\ result = NoResult

\* processImage is called with a loaded image element (line 23).
ImgInit ==
  /\ ipc = "start"
  /\ img \in [width : ImageSides, height : ImageSides]
  /\ newWidth = 0 /\ newHeight = 0
  /\ padLeft = 0 /\ padRight = 0 /\ padTop = 0 /\ padBottom = 0
  /\ result = NoResult

\* createImageBitmap without the zero-height case.
CreateImageBitmapRejectsWidthOnly(w, h) == w = 0

\* createImageBitmap(imageOrBitmap), line 32: the promise is rejected with an
\* InvalidStateError when the image element has a zero intrinsic width or
\* height.
CreateImageBitmapRejects(w, h) == w = 0 \/ h = 0

\* lines 26-33: the only caller (popup.js, line 169) passes the image element
\* it loaded, so createImageBitmap is awaited; its rejection rejects
\* processImage.
CreateBitmap ==
  /\ ipc = "start"
  /\ ipc' = IF CreateImageBitmapRejects(img.width, img.height)
              THEN "rejected" ELSE "bitmap"
  /\ UNCHANGED <<img, newWidth, newHeight, padLeft, padRight, padTop,
                 padBottom, result>>

\* lines 35-58: the resized size, and the resize canvas of that size
Resize ==
  /\ ipc = "bitmap"
  /\ newWidth' = NewWidth(img.width, img.height)
  /\ newHeight' = NewHeight(img.width, img.height)
  /\ ipc' = "resized"
  /\ UNCHANGED <<img, padLeft, padRight, padTop, padBottom, result>>

\* lines 63-68
Pad ==
  /\ ipc = "resized"
  /\ padLeft' = PadLeading(targetSize - newWidth)
  /\ padRight' = PadTrailing(targetSize - newWidth)
  /\ padTop' = PadLeading(targetSize - newHeight)
  /\ padBottom' = PadTrailing(targetSize - newHeight)
  /\ ipc' = "padsComputed"
  /\ UNCHANGED <<img, newWidth, newHeight, result>>

\* lines 70-80: the padded canvas; drawImage throws InvalidStateError when
\* its source canvas has a zero width or height, which rejects processImage.
DrawPadded ==
  /\ ipc = "padsComputed"
  /\ ipc' = IF newWidth = 0 \/ newHeight = 0 THEN "threw" ELSE "drawn"
  /\ UNCHANGED <<img, newWidth, newHeight, padLeft, padRight, padTop,
                 padBottom, result>>

\* lines 118-131 (the tensor of lines 91-109 is modelled by PixSpec)
Return ==
  /\ ipc = "drawn"
  /\ result' = [dims |-> Dims(targetSize),
                resizeFactor |-> ResizeFactor(img.width, img.height),
                padLeft |-> padLeft, padTop |-> padTop]
  /\ ipc' = "returned"
  /\ UNCHANGED <<img, newWidth, newHeight, padLeft, padRight, padTop,
                 padBottom>>

(***************************************************************************)
(* image_processor.js: the conversion loop of processImage, lines 91-109,  *)
(* on a square canvas of side CanvasSide.  The loop uses targetSize only   *)
(* as the plane size targetSize * targetSize.                              *)
(***************************************************************************)

\* The RGBA samples a canvas pixel may hold.
Palette == {<<255, 0, 0, 255>>, <<10, 20, 30, 40>>, <<0, 0, 0, 255>>}

PixelCount(side) == side * side

\* getImageData(0, 0, side, side).data, line 91: 4 samples per pixel,
\* row-major, for a canvas whose pixel p is canvas[p].
ImageDataOf(canvas, side) ==
  [i \in 0..(4 * PixelCount(side) - 1) |-> canvas[i \div 4][(i % 4) + 1]]

\* A stored sample v / 255 (lines 106-108) as the fraction it stands for;
\* a fresh Float32Array holds zeros (line 92).
Div255(v) == [num |-> v, den |-> 255]
FloatZero == [num |-> 0, den |-> 1]

\* PlaneOffset with a row in place of a plane.
PlaneOffsetRow(channel, side) == channel * side

\* The offset of a channel plane, lines 106-108.
PlaneOffset(channel, side) == channel * side * side

\* SampleOffset reading the samples as ARGB.
SampleOffsetArgb(channel) == channel + 1

\* The offset of a channel's sample within a pixel of imageData.data:
\* i + 0, i + 1, i + 2, lines 101-103.
SampleOffset(channel) == channel

\* An indexed store into a typed array: out-of-range indices are ignored.
Store(arr, idx, v) == IF idx \in DOMAIN arr THEN [arr EXCEPT ![idx] = v] ELSE arr
Bump(cnt, idx) == IF idx \in DOMAIN cnt THEN [cnt EXCEPT ![idx] = @ + 1] ELSE cnt

PixIdle ==
  /\ ppc = "off"
  /\ imageData = <<>>
  /\ float32Data = <<>>
  /\ writeCount = <<>>
  /\ loopI = 0
  /\ pixResult = <<>>

\* lines 91-92 and the loop initialisation of line 99
PixInit ==
  /\ ppc = "loop"
  /\ \E canvas \in [0..(PixelCount(CanvasSide) - 1) -> Palette] :
        imageData = ImageDataOf(canvas, CanvasSide)
  /\ float32Data = [p \in 0..(3 * PixelCount(CanvasSide) - 1) |-> FloatZero]
  /\ writeCount = [p \in 0..(3 * PixelCount(CanvasSide) - 1) |-> 0]
  /\ loopI = 0
  /\ pixResult = <<>>

\* one iteration of the loop, lines 99-109
ConvertPixel ==
  /\ ppc = "loop"
  /\ loopI < 4 * PixelCount(CanvasSide)
  /\ LET pixelIndex == loopI \div 4
         rVal == imageData[loopI + SampleOffset(0)]
         gVal == imageData[loopI + SampleOffset(1)]
         bVal == imageData[loopI + SampleOffset(2)]
         iR == pixelIndex + PlaneOffset(0, CanvasSide)
         iG == pixelIndex + PlaneOffset(1, CanvasSide)
         iB == pixelIndex + PlaneOffset(2, CanvasSide)
     IN  /\ float32Data' =
              Store(Store(Store(float32Data, iR, Div255(rVal)),
                          iG, Div255(gVal)), iB, Div255(bVal))
         /\ writeCount' = Bump(Bump(Bump(writeCount, iR), iG), iB)
  /\ loopI' = loopI + 4
  /\ UNCHANGED <<ppc, imageData, pixResult>>

\* the loop ends; lines 125-127 return the tensor and its dims
ReturnTensor ==
  /\ ppc = "loop"
  /\ loopI >= 4 * PixelCount(CanvasSide)
  /\ ppc' = "done"
  /\ pixResult' = Dims(CanvasSide)
  /\ UNCHANGED <<imageData, float32Data, writeCount, loopI>>

(***************************************************************************)
(* popup.js                                                                *)
(***************************************************************************)

\* The popup as it opens: no upload was handled and the status line is
\* empty.
UiInit ==
  /\ uiPc = "idle"
  /\ statusText = ""
  /\ progress = 0
  /\ isError = FALSE
  /\ uiReq = 0

\* updateStatus, lines 201-205.
updateStatus(text, percent, error) ==
  /\ statusText' = text
  /\ progress' = percent
  /\ isError' = error

\* The catch block of handleImageUpload, lines 194-197.
UiCatch ==
  /\ uiPc' = "failed"
  /\ updateStatus("Error", 0, TRUE)

\* The change listener, lines 149-156: without a file it returns at once,
\* else it shows 'Loading image...' and awaits loadImage.  The user may pick
\* a file again once the previous upload has been handled.
handleImageUpload(hasFile) ==
  /\ uiPc \in {"idle", "returned", "complete", "failed"}
  /\ IF hasFile
       THEN /\ uiPc' = "loading"
            /\ updateStatus("Loading image...", 20, FALSE)
       ELSE /\ uiPc' = "returned"
            /\ UNCHANGED <<statusText, progress, isError>>
  /\ uiReq' = 0
  /\ UNCHANGED workerVars

\* img.onload, line 211: lines 157-168 show the preview and the status
\* 'Preprocessing image...' and call processImage.
LoadImageResolves ==
  /\ uiPc = "loading"
  /\ uiPc' = "preprocessing"
  /\ updateStatus("Preprocessing image...", 40, FALSE)
  /\ UNCHANGED <<uiReq, workerVars>>

\* img.onerror, line 212.
LoadImageRejects ==
  /\ uiPc = "loading"
  /\ UiCatch
  /\ UNCHANGED <<uiReq, workerVars>>

\* processImage fulfils: lines 171-185 show 'Sending to background for
\* inference...' and call chrome.runtime.sendMessage.
ProcessImageResolves ==
  /\ uiPc = "preprocessing"
  /\ uiPc' = "sending"
  /\ updateStatus("Sending to background for inference...", 60, FALSE)
  /\ UNCHANGED <<uiReq, workerVars>>

\* processImage rejects.
ProcessImageRejects ==
  /\ uiPc = "preprocessing"
  /\ UiCatch
  /\ UNCHANGED <<uiReq, workerVars>>

\* The message of lines 178-185 reaches the onMessage listener of the
\* worker, which handles it up to its first await.
DeliverMessage(len, dims) ==
  /\ uiPc = "sending"
  /\ OnMessage("PROCESS_IMAGE", len, dims)
  /\ uiPc' = "awaiting"
  /\ uiReq' = Len(requests) + 1
  /\ UNCHANGED <<statusText, progress, isError>>

\* The promise of sendMessage fulfils with whatever sendResponse was called
\* with; lines 187-192 log it and show 'Detection complete'.  The payload is
\* not inspected.
ResponseArrives ==
  /\ uiPc = "awaiting"
  /\ requests[uiReq].responses = 1
  /\ uiPc' = "complete"
  /\ updateStatus("Detection complete", 100, FALSE)
  /\ UNCHANGED <<uiReq, workerVars>>

\* The promise of sendMessage rejects: the worker went away before the
\* message was delivered or before it was answered.
ChannelFails ==
  /\ \/ uiPc = "sending" /\ reloaded
     \/ uiPc = "awaiting" /\ requests[uiReq].pc = "closed"
  /\ UiCatch
  /\ UNCHANGED <<uiReq, workerVars>>

(***************************************************************************)
(* Specifications                                                          *)
(***************************************************************************)
Init == WorkerInit /\ ImgIdle /\ PixIdle /\ UiInit

Next ==
  \/ \E t \in Triggers : initializeModel(t) /\ UNCHANGED <<imgVars, pixVars, uiVars>>
  \/ \E t \in Triggers : CreateResolves(t) /\ UNCHANGED <<imgVars, pixVars, uiVars>>
  \/ \E t \in Triggers : CreateRejects(t) /\ UNCHANGED <<imgVars, pixVars, uiVars>>
  \/ ReloadTimerFires /\ UNCHANGED <<imgVars, pixVars, uiVars>>
  \/ \E m \in Messages :
        OnMessage(m.type, m.len, m.dims) /\ UNCHANGED <<imgVars, pixVars, uiVars>>
  \/ \E i \in 1..MaxRequests : RunResolves(i) /\ UNCHANGED <<imgVars, pixVars, uiVars>>
  \/ \E i \in 1..MaxRequests : RunRejects(i) /\ UNCHANGED <<imgVars, pixVars, uiVars>>

Spec == Init /\ [][Next]_vars

\* Every call into the engine settles, and an armed timer fires.
CreateSettles(t) ==
  (CreateResolves(t) \/ CreateRejects(t)) /\ UNCHANGED <<imgVars, pixVars, uiVars>>
RunSettles(i) ==
  (RunResolves(i) \/ RunRejects(i)) /\ UNCHANGED <<imgVars, pixVars, uiVars>>
TimerFires == ReloadTimerFires /\ UNCHANGED <<imgVars, pixVars, uiVars>>

Fairness ==
  /\ \A t \in Triggers : WF_vars(CreateSettles(t))
  /\ \A i \in 1..MaxRequests : WF_vars(RunSettles(i))
  /\ WF_vars(TimerFires)

FairSpec == Spec /\ Fairness

\* The popup together with the service worker; the popup is the only sender
\* of messages.
UiNext ==
  \/ \E t \in Triggers : initializeModel(t) /\ UNCHANGED <<imgVars, pixVars, uiVars>>
  \/ \E t \in Triggers : CreateResolves(t) /\ UNCHANGED <<imgVars, pixVars, uiVars>>
  \/ \E t \in Triggers : CreateRejects(t) /\ UNCHANGED <<imgVars, pixVars, uiVars>>
  \/ ReloadTimerFires /\ UNCHANGED <<imgVars, pixVars, uiVars>>
  \/ \E i \in 1..MaxRequests : RunResolves(i) /\ UNCHANGED <<imgVars, pixVars, uiVars>>
  \/ \E i \in 1..MaxRequests : RunRejects(i) /\ UNCHANGED <<imgVars, pixVars, uiVars>>
  \/ \E hasFile \in BOOLEAN :
        handleImageUpload(hasFile) /\ UNCHANGED <<imgVars, pixVars>>
  \/ LoadImageResolves /\ UNCHANGED <<imgVars, pixVars>>
  \/ LoadImageRejects /\ UNCHANGED <<imgVars, pixVars>>
  \/ ProcessImageResolves /\ UNCHANGED <<imgVars, pixVars>>
  \/ ProcessImageRejects /\ UNCHANGED <<imgVars, pixVars>>
  \/ \E len \in TensorLens, dims \in DimsChoices :
        DeliverMessage(len, dims) /\ UNCHANGED <<imgVars, pixVars>>
  \/ ResponseArrives /\ UNCHANGED <<imgVars, pixVars>>
  \/ ChannelFails /\ UNCHANGED <<imgVars, pixVars>>

UiSpec == Init /\ [][UiNext]_vars

ImgNext ==
  \/ CreateBitmap /\ UNCHANGED <<workerVars, pixVars, uiVars>>
  \/ Resize /\ UNCHANGED <<workerVars, pixVars, uiVars>>
  \/ Pad /\ UNCHANGED <<workerVars, pixVars, uiVars>>
  \/ DrawPadded /\ UNCHANGED <<workerVars, pixVars, uiVars>>
  \/ Return /\ UNCHANGED <<workerVars, pixVars, uiVars>>

ImgSpecInit == WorkerInit /\ ImgInit /\ PixIdle /\ UiInit

ImgSpec == ImgSpecInit /\ [][ImgNext]_vars

PixNext ==
  \/ ConvertPixel /\ UNCHANGED <<workerVars, imgVars, uiVars>>
  \/ ReturnTensor /\ UNCHANGED <<workerVars, imgVars, uiVars>>

PixSpecInit == WorkerInit /\ ImgIdle /\ PixInit /\ UiInit

PixSpec == PixSpecInit /\ [][PixNext]_vars

\* Both stages of processImage, each started from every input of its model.
LetterboxInit == ImgSpecInit \/ PixSpecInit

LetterboxNext == ImgNext \/ PixNext

LetterboxSpec == LetterboxInit /\ [][LetterboxNext]_vars

(***************************************************************************)
(* Properties of the service worker                                        *)
(***************************************************************************)
ProcessImage(i) == requests[i].type = "PROCESS_IMAGE"
LoadsInFlight == {t \in Triggers : initPc[t] = "creating"}
Settled(t) == initPc[t] \in {"ready", "failed"}
ReloadScheduled == reloadTimers > 0 \/ reloaded

\* C1 (session gating): every PROCESS_IMAGE request handled while the
\* session manager is not Ready (Uninitialized, Loading or Failed) is
\* answered at once with the model-not-initialized error and no engine run
\* is invoked for it.
C1_SessionGating ==
  \A i \in 1..Len(requests) :
    (ProcessImage(i) /\ requests[i].manager # "Ready")
      => /\ requests[i].pc = "done"
         /\ requests[i].response = "notInitialized"
         /\ requests[i].ranOn = "null"

\* C2 (single concurrent load): at most one load is ever in flight, and when
\* initializeModel was called while another call's create was pending,
\* exactly one create invocation happened and the callers that have settled
\* observed the same outcome.
C2_SingleConcurrentLoad ==
  /\ Cardinality(LoadsInFlight) <= 1
  /\ overlapped =>
       /\ createCalls = 1
       /\ \A t, u \in Triggers :
            (Settled(t) /\ Settled(u)) => initPc[t] = initPc[u]

\* C3 as stated (exactly one response per request): sendResponse is never
\* called twice for a PROCESS_IMAGE request, and no such request reaches the
\* end of its exchange without sendResponse having been called once.
C3_ExactlyOneResponse ==
  \A i \in 1..Len(requests) :
    ProcessImage(i) =>
      /\ requests[i].responses <= 1
      /\ (requests[i].pc # "running" => requests[i].responses = 1)

\* C3 as amended: sendResponse is called at most once per PROCESS_IMAGE
\* request, with a success or an error payload, the channel stays open while
\* the run is pending, a request whose handling finished has been answered
\* exactly once, and every delivered request is eventually answered unless
\* chrome.runtime.reload() ends the worker first.
C3_OneResponseUnlessReloaded ==
  /\ [](\A i \in 1..Len(requests) :
          ProcessImage(i) =>
            /\ requests[i].responses <= 1
            /\ (requests[i].pc = "done" =>
                  /\ requests[i].responses = 1
                  /\ requests[i].response \in
                       {"summary", "notInitialized", "sizeMismatch", "runError"})
            /\ (requests[i].pc = "running" => requests[i].responses = 0)
            /\ (requests[i].pc = "closed" => reloaded))
  /\ \A i \in 1..MaxRequests :
       (i <= Len(requests) /\ ProcessImage(i))
         ~> ((i <= Len(requests) /\ requests[i].responses = 1) \/ reloaded)

\* A request was answered with an error payload after its engine run
\* rejected, and another with the summary after its run fulfilled.
C3_Witness ==
  /\ \E i \in 1..Len(requests) :
       requests[i].response = "runError" /\ requests[i].responses = 1
  /\ \E i \in 1..Len(requests) :
       requests[i].response = "summary" /\ requests[i].responses = 1

\* C4 (shape validation): every PROCESS_IMAGE request whose tensor length
\* differs from the product of its dimensions is answered with the
\* shape-mismatch error and no engine run is invoked for it.
C4_ShapeValidation ==
  \A i \in 1..Len(requests) :
    (ProcessImage(i) /\ requests[i].len # Product(requests[i].dims))
      => /\ requests[i].response = "sizeMismatch"
         /\ requests[i].ranOn = "null"

\* C5 (guaranteed tensor release): the input tensor of a request is disposed
\* by the time its response is produced, so no input tensor is live when no
\* request is in flight.
C5_TensorRelease ==
  /\ \A i \in 1..Len(requests) : requests[i].responses > 0 => i \notin liveTensors
  /\ (\A i \in 1..Len(requests) : requests[i].pc # "running") => liveTensors = {}

\* C6 (initialization failure escalates to a restart): a failed
\* initializeModel is surfaced to the trigger that started it (no rejection
\* is left unhandled), a reload is eventually scheduled after it, and every
\* create invocation belongs to a trigger event (no in-process retry).
C6_InitFailureEscalates ==
  /\ [](unhandledRejections = 0)
  /\ \A t \in Triggers : (initPc[t] = "failed") ~> ReloadScheduled
  /\ [](createCalls = Cardinality({t \in Triggers : initPc[t] # "idle"}))

ErrorPayloads == {"notInitialized", "sizeMismatch", "runError"}

\* C13 (UI error display): when the worker answers the popup's request with
\* an error payload, or the channel fails, handleImageUpload ends with the
\* status showing the error and progress 0; 'Detection complete' / 100% is
\* never shown for a request that failed.
C13_UiErrorDisplay ==
  /\ (uiPc = "complete" /\ requests[uiReq].response \in ErrorPayloads) =>
       /\ statusText = "Error"
       /\ progress = 0
       /\ isError
  /\ (uiPc = "failed") =>
       /\ statusText = "Error"
       /\ progress = 0
       /\ isError
  /\ (uiReq > 0 /\ (statusText = "Detection complete" \/ progress = 100)) =>
       requests[uiReq].response = "summary"

\* C14 (failed load leaves the manager not Ready): after an initializeModel
\* attempt fails, and until a later attempt succeeds, no session is
\* obtainable, also when an earlier attempt had succeeded; the failure
\* reaches the caller (as a handled or an unhandled rejection).
C14_FailedLoadNotReady ==
  /\ lastSettled = "rejected" => SessionMissing
  /\ Cardinality({t \in Triggers : initPc[t] = "failed"})
       = reloadTimers + unhandledRejections + (IF reloaded THEN 1 ELSE 0)

\* C16 (session consistency within one inference): the session whose
\* outputNames selects the result tensor of a request is the session that
\* executed the run of that request.
C16_SessionConsistency ==
  \A i \in 1..Len(requests) :
    requests[i].response = "summary" => requests[i].namesFrom = requests[i].ranOn

SuccessfulLoads == {t \in Triggers : initPc[t] = "ready"}

\* C17 (session reference is written only on successful load): the global
\* is null or the handle of a create that fulfilled; a failing load leaves
\* it unchanged; once non-null it never becomes null again; and a
\* PROCESS_IMAGE request arriving after a successful load is not answered
\* with the model-not-initialized error.
C17_WrittenOnlyOnSuccess ==
  /\ [](ortSession \in {"null"} \cup SuccessfulLoads)
  /\ [][(\E t \in Triggers : initPc[t] = "creating" /\ initPc'[t] = "failed")
         => ortSession' = ortSession]_vars
  /\ [][ortSession # "null" => ortSession' # "null"]_vars
  /\ [][(SuccessfulLoads # {} /\ Len(requests') > Len(requests))
         => requests'[Len(requests')].response # "notInitialized"]_vars

\* A load failed after another had succeeded, and a request handled after
\* the failure ran on the session of the earlier load.
C17_Witness ==
  /\ ortSession = "installed"
  /\ initPc["startup"] = "failed"
  /\ \E i \in 1..Len(requests) :
       requests[i].manager = "Failed" /\ requests[i].ranOn = "installed"

(***************************************************************************)
(* Properties of processImage                                              *)
(***************************************************************************)
Resized == ipc \in {"resized", "padsComputed", "drawn", "threw", "returned"}
PadsComputed == ipc \in {"padsComputed", "drawn", "threw", "returned"}

\* n / d rounded to the nearest integer, halves up, in exact arithmetic
RoundHalfUp(n, d) == (2 * n + d) \div (2 * d)

Abs(x) == IF x < 0 THEN 0 - x ELSE x

\* C7 (aspect preservation): for width >= height >= 1, newWidth is
\* targetSize and newHeight is round(targetSize*height/width); for
\* height > width >= 1, newHeight is targetSize and newWidth is
\* round(targetSize*width/height), rounding half up.
C7_AspectPreservation ==
  Resized =>
    IF img.width >= img.height
      THEN /\ newWidth = targetSize
           /\ newHeight = RoundHalfUp(targetSize * img.height, img.width)
      ELSE /\ newHeight = targetSize
           /\ newWidth = RoundHalfUp(targetSize * img.width, img.height)

\* C8 (padding correctness): padLeft + newWidth + padRight and
\* padTop + newHeight + padBottom both equal targetSize, the two sides of a
\* padding differ by at most 1 with the extra pixel on the right/bottom, and
\* a 640x480 image gives newWidth 320, newHeight 240, padTop = padBottom =
\* 40 and padLeft = padRight = 0.
C8_PaddingCorrectness ==
  PadsComputed =>
    /\ padLeft + newWidth + padRight = targetSize
    /\ padTop + newHeight + padBottom = targetSize
    /\ padRight - padLeft \in {0, 1}
    /\ padBottom - padTop \in {0, 1}
    /\ Abs(padLeft - padRight) <= 1
    /\ Abs(padTop - padBottom) <= 1
    /\ (img = [width |-> 640, height |-> 480] =>
          /\ newWidth = 320 /\ newHeight = 240
          /\ padTop = 40 /\ padBottom = 40
          /\ padLeft = 0 /\ padRight = 0)

\* An odd padding total was split, the extra pixel on the bottom.
C8_Witness ==
  /\ PadsComputed
  /\ (targetSize - newHeight) % 2 = 1
  /\ padBottom = padTop + 1

\* C9 as stated (resized-size guarantee): neither newWidth nor newHeight
\* exceeds targetSize, and exactly one of the two equals targetSize.
C9_ExactlyOneEqualsTarget ==
  Resized =>
    /\ newWidth <= targetSize
    /\ newHeight <= targetSize
    /\ (newWidth = targetSize) # (newHeight = targetSize)

\* C9 as amended: neither newWidth nor newHeight exceeds targetSize, and at
\* least one of the two equals targetSize (both do for a square image).
C9_AtLeastOneEqualsTarget ==
  Resized =>
    /\ newWidth <= targetSize
    /\ newHeight <= targetSize
    /\ (newWidth = targetSize \/ newHeight = targetSize)

\* A portrait image was resized to less than targetSize in width.
C9_Witness ==
  /\ Resized
  /\ img.height > img.width
  /\ newHeight = targetSize
  /\ newWidth < targetSize

\* C10 (tensor shape and channel-planar placement): the tensor has length
\* 3*S*S and dims [1,3,S,S]; position p holds red/255, position p + S*S
\* green/255 and position p + 2*S*S blue/255 of pixel p of the padded
\* canvas, whatever its alpha sample; every position is written exactly
\* once and never more; every value lies in [0,1].
C10_TensorPlacement ==
  LET n == PixelCount(CanvasSide) IN
  /\ ppc # "off" =>
       /\ DOMAIN float32Data = 0..(3 * n - 1)
       /\ \A q \in DOMAIN float32Data :
            /\ 0 <= float32Data[q].num
            /\ float32Data[q].num <= float32Data[q].den
            /\ writeCount[q] <= 1
  /\ ppc = "done" =>
       /\ pixResult = <<1, 3, CanvasSide, CanvasSide>>
       /\ Product(pixResult) = Cardinality(DOMAIN float32Data)
       /\ \A p \in 0..(n - 1) :
            /\ float32Data[p] = [num |-> imageData[4 * p], den |-> 255]
            /\ float32Data[p + n] = [num |-> imageData[4 * p + 1], den |-> 255]
            /\ float32Data[p + 2 * n] = [num |-> imageData[4 * p + 2], den |-> 255]
       /\ \A q \in DOMAIN float32Data : writeCount[q] = 1

\* The conversion finished for a canvas whose first pixel is (10,20,30,40)
\* and whose last pixel is red.
C10_Witness ==
  /\ ppc = "done"
  /\ imageData[0] = 10 /\ imageData[3] = 40
  /\ float32Data[PixelCount(CanvasSide)].num = 20
  /\ float32Data[PixelCount(CanvasSide) - 1].num = 255

C12_ScaleMetadata ==
  ipc = "returned" =>
    result.resizeFactor * (IF img.width >= img.height THEN img.width
                           ELSE img.height) = targetSize

Black == <<0, 0, 0, 255>>

\* C15 (square images skip padding): for every square image, newWidth and
\* newHeight are targetSize and the four paddings are 0; and an all-black
\* canvas, which is what an all-black image of the target size is drawn to,
\* yields an all-zero tensor.
C15_SquareSkipsPadding ==
  /\ (Resized /\ img.width = img.height) =>
       /\ newWidth = targetSize
       /\ newHeight = targetSize
  /\ (PadsComputed /\ img.width = img.height) =>
       /\ padLeft = 0 /\ padRight = 0 /\ padTop = 0 /\ padBottom = 0
  /\ (ipc = "returned" /\ img.width = img.height) =>
       /\ result.padLeft = 0
       /\ result.padTop = 0
  /\ (/\ ppc = "done"
      /\ \A p \in 0..(PixelCount(CanvasSide) - 1) :
           \A c \in 0..3 : imageData[4 * p + c] = Black[c + 1]) =>
       \A q \in DOMAIN float32Data : float32Data[q].num = 0

\* processImage returned for the square image of the target size.
C15_Witness ==
  /\ ipc = "returned"
  /\ img = [width |-> targetSize, height |-> targetSize]
  /\ result.padLeft = 0
  /\ result.padTop = 0

\* C18 (resized content is non-empty and offsets are in range): for every
\* image with width, height >= 1, newWidth >= 1 and newHeight >= 1, padLeft
\* and padTop lie in 0..floor(targetSize/2), and one of them is 0.
C18_NonEmptyAndOffsets ==
  (PadsComputed /\ img.width >= 1 /\ img.height >= 1) =>
    /\ newWidth >= 1
    /\ newHeight >= 1
    /\ 0 <= padLeft /\ padLeft <= targetSize \div 2
    /\ 0 <= padTop /\ padTop <= targetSize \div 2
    /\ (padLeft = 0 \/ padTop = 0)

====
